---- MODULE Spec2Model ----
(***************************************************************************)
(* Model of lead-energy-api: the DGEG extraction pipeline (scraper.py)     *)
(* that persists dados_reais_energia.json, and the proposal engine         *)
(* (main.py) that loads that file at start-up and answers POST /proposta.  *)
(*                                                                         *)
(* Numbers.  Text is modelled by its set of lower-case keywords, so that   *)
(* the substring tests of the code become membership tests.  Money is in   *)
(* cents, the predictor score in hundredths of a point, lead_score in      *)
(* tenths of a point.  round() is Python's round-half-to-even.             *)
(***************************************************************************)
EXTENDS Integers, Sequences, FiniteSets, TLC

VARIABLES
    pcS,            \* position of the pipeline run (scraper.py main / scrape)
    browser,        \* "none" | "open" | "closed"   (playwright browser)
    tempFile,       \* TRUE iff temp_elec.xlsx exists on disk
    table,          \* the DataFrame df read from the spreadsheet
    elec_medias,    \* value returned by scrape_dgeg_electricidade()
    usedFallback,   \* TRUE iff get_fallback_elec() produced elec_medias
    dados,          \* the dict main() builds before writing
    file,           \* dados_reais_energia.json on disk: [exists, text]
    runs,           \* number of pipeline runs started (the clock of datetime.now())
    persistidos,    \* history: <<usedFallback, fonte>> of every completed run
    snapshotAntes,  \* history: the file as it was when the current run started
    pcE,            \* position of the engine's module-level start-up
    lido,           \* what the engine's json.load read from the file
    consumo_medio_eletricidade, \* the engine's in-memory baseline
    precos,         \* the engine's in-memory prices [eletricidade, gas]
    pedido,         \* the last LeadInput handled by gerar_proposta
    X,              \* the feature vector built for that request
    propensao,      \* what model.predict returned for it (hundredths of a point)
    predicao,       \* "none" | "ok" | "raised": how model.predict ended for it
    resp            \* the HTTP outcome of that request

varsS == <<pcS, browser, tempFile, table, elec_medias, usedFallback, dados,
           file, runs, persistidos, snapshotAntes>>
varsE == <<pcE, lido, consumo_medio_eletricidade, precos>>
varsR == <<pedido, X, propensao, predicao, resp>>
vars  == <<pcS, browser, tempFile, table, elec_medias, usedFallback, dados,
           file, runs, persistidos, snapshotAntes, pcE, lido,
           consumo_medio_eletricidade, precos, pedido, X, propensao, predicao, resp>>

(***************************************************************************)
(* Bounds                                                                  *)
(***************************************************************************)
MaxRuns == 2

(***************************************************************************)
(* Arithmetic helpers                                                      *)
(***************************************************************************)
\* Python round(): nearest, ties to the even neighbour.  d > 0.
RoundHalfEven(n, d) ==
    LET q == n \div d
        r == n - q * d
    IN  IF 2 * r < d THEN q
        ELSE IF 2 * r > d THEN q + 1
        ELSE IF q % 2 = 0 THEN q ELSE q + 1

\* Python int(): truncation toward zero of n / d.  d > 0.
TruncDiv(n, d) == IF n >= 0 THEN n \div d ELSE -((-n) \div d)

Range(s) == {s[i] : i \in 1..Len(s)}

\* next(iterable, None) over the matching column positions: the first, or 0
FirstIndex(S) ==
    IF S = {} THEN 0 ELSE CHOOSE i \in S : \A j \in S : i <= j

(***************************************************************************)
(* scraper.py: configuration                                               *)
(***************************************************************************)
OUTPUT_FILE == "dados_reais_energia.json"
PRECOS_2025 == [eletricidade |-> 24, gas |-> 10]      \* cents per kWh / m3
FONTE == "DGEG (raspado) + Fallback 2024"
total_residencial_pt == 3500000
GWH_FACTOR == 1000000
DEFAULT_KWH == 4000

distritos == <<"Lisboa", "Porto", "Faro", "Coimbra", "Braga">>

get_fallback_elec ==
    [d \in {"Lisboa", "Porto", "Faro", "Coimbra", "Braga", "Setúbal", "Aveiro"} |->
        CASE d = "Lisboa"  -> 3850
          [] d = "Porto"   -> 4250
          [] d = "Faro"    -> 4900
          [] d = "Coimbra" -> 3950
          [] d = "Braga"   -> 4550
          [] d = "Setúbal" -> 4100
          [] d = "Aveiro"  -> 4300]

NoMedias == [d \in {} |-> 0]
NoTable  == [columns |-> <<>>, rows |-> <<>>]
NoDados  == [data_raspagem |-> 0, consumo_medio_eletricidade |-> NoMedias,
             precos |-> PRECOS_2025, fonte |-> ""]

(***************************************************************************)
(* scraper.py: column-role detection, filter, aggregation, conversion      *)
(***************************************************************************)
IsMunicipioCol(c) == "munic" \in c \/ "concelho" \in c
IsTipoCol(c) == c \cap {"tipo", "setor", "cliente", "consumidor"} # {}
IsConsumoCol(c) == "consumo" \in c /\ ("gwh" \in c \/ "mwh" \in c \/ "kwh" \in c)

municipio_col(df) ==
    FirstIndex({i \in 1..Len(df.columns) : IsMunicipioCol(df.columns[i])})
tipo_col(df) ==
    FirstIndex({i \in 1..Len(df.columns) : IsTipoCol(df.columns[i])})
consumo_col(df) ==
    FirstIndex({i \in 1..Len(df.columns) : IsConsumoCol(df.columns[i])})

\* not all([municipio_col, tipo_col, consumo_col])
ColunasFaltando(df) ==
    municipio_col(df) = 0 \/ tipo_col(df) = 0 \/ consumo_col(df) = 0

\* str.contains('residencial|doméstico', case=False)
IsResidencial(cell) == cell \cap {"residencial", "doméstico"} # {}

\* positions of the rows kept by the residential filter
df_res(df) == {i \in 1..Len(df.rows) : IsResidencial(df.rows[i][tipo_col(df)])}

\* text before ' - ', then before '(', stripped
Distrito(cell) == cell.nome

RECURSIVE SumRows(_, _, _)
SumRows(df, S, col) ==
    IF S = {} THEN 0
    ELSE LET i == CHOOSE j \in S : TRUE
         IN  df.rows[i][col] + SumRows(df, S \ {i}, col)

\* df_res.groupby('Distrito')[consumo_col].sum()
total_gwh(df) ==
    LET keep  == df_res(df)
        dists == {Distrito(df.rows[i][municipio_col(df)]) : i \in keep}
    IN  [d \in dists |->
            SumRows(df, {i \in keep : Distrito(df.rows[i][municipio_col(df)]) = d},
                    consumo_col(df))]

\* round(val * 1_000_000 / total_residencial_pt, 0), whatever the unit found
media_kwh(df) ==
    LET t == total_gwh(df)
    IN  [d \in DOMAIN t |->
            \* the fraction is reduced by 100000 to stay within 32-bit integers
            RoundHalfEven(t[d] * (GWH_FACTOR \div 100000),
                          total_residencial_pt \div 100000)]

(***************************************************************************)
(* scraper.py main(): the baseline and the record written                  *)
(***************************************************************************)
Get(m, d, default) == IF d \in DOMAIN m THEN m[d] ELSE default

\* variant: the lookup key never matches, so every district gets the default
ConsumoMedio_default(m) ==
    [d \in Range(distritos) |->
        [residencial       |-> DEFAULT_KWH,
         comercial_pequeno |-> TruncDiv(DEFAULT_KWH * 22, 10),
         industrial        |-> DEFAULT_KWH * 11]]

\* variant: the baseline is built over the keys of the extracted map
ConsumoMedio_all(m) ==
    [d \in DOMAIN m |->
        [residencial       |-> m[d],
         comercial_pequeno |-> TruncDiv(m[d] * 22, 10),
         industrial        |-> m[d] * 11]]

ConsumoMedio(m) ==
    [d \in Range(distritos) |->
        [residencial       |-> Get(m, d, DEFAULT_KWH),
         comercial_pequeno |-> TruncDiv(Get(m, d, DEFAULT_KWH) * 22, 10),
         industrial        |-> Get(m, d, DEFAULT_KWH) * 11]]

MkDados(m, now) ==
    [data_raspagem |-> now,
     consumo_medio_eletricidade |-> ConsumoMedio(m),
     precos |-> PRECOS_2025,
     fonte |-> FONTE]

\* json.dump: the record as its sequence of key/value members
Serialize(d) ==
    << <<"data_raspagem", d.data_raspagem>>,
       <<"consumo_medio_eletricidade", d.consumo_medio_eletricidade>>,
       <<"precos", d.precos>>,
       <<"fonte", d.fonte>> >>

(***************************************************************************)
(* Source spreadsheets the publisher may serve                             *)
(***************************************************************************)
ColsGWh        == << {"munic"}, {"tipo"}, {"consumo", "gwh"} >>
ColsMWh        == << {"ano"}, {"concelho"}, {"setor"}, {"consumo", "mwh"} >>
ColsSemUnidade == << {"munic"}, {"tipo"}, {"consumo"} >>
ColsSemTipo    == << {"munic"}, {"consumo", "kwh"} >>
ColsSemMunic   == << {"tipo", "consumidor"}, {"consumo", "gwh"} >>
Layouts == {ColsGWh, ColsMWh, ColsSemUnidade, ColsSemTipo, ColsSemMunic}

\* logical rows: <<district, separator, category keywords, consumption>>
LinhasOK      == << <<"Lisboa", " - ", {"residencial"}, 7000>>,
                    <<"Lisboa", "(", {"doméstico", "bt"}, 6475>>,
                    <<"Porto", "", {"residencial"}, 14875>>,
                    <<"Porto", "", {"industrial"}, 90000>> >>
LinhasZero    == << <<"Lisboa", "", {"residencial"}, 0>>,
                    <<"Porto", " - ", {"doméstico"}, 14875>> >>
LinhasNeg     == << <<"Lisboa", "", {"residencial"}, 7>>,
                    <<"Lisboa", "(", {"residencial"}, -14>>,
                    <<"Faro", "", {"residencial"}, 1>> >>
LinhasNaoRes  == << <<"Lisboa", "", {"industrial"}, 7000>>,
                    <<"Porto", "", {"agricultura"}, 500>> >>
LinhasFora    == << <<"Setúbal", " - ", {"residencial"}, 14350>> >>
RowSets == {LinhasOK, LinhasZero, LinhasNeg, LinhasNaoRes, LinhasFora}

MkRow(cols, r) ==
    [i \in 1..Len(cols) |->
        IF IsMunicipioCol(cols[i]) THEN [nome |-> r[1], sep |-> r[2]]
        ELSE IF IsTipoCol(cols[i]) THEN r[3]
        ELSE IF "consumo" \in cols[i] THEN r[4]
        ELSE 2023]

MkTable(cols, rs) ==
    [columns |-> cols, rows |-> [i \in 1..Len(rs) |-> MkRow(cols, rs[i])]]

Tables == {MkTable(c, rs) : c \in Layouts, rs \in RowSets}

(***************************************************************************)
(* scraper.py: one pipeline run                                            *)
(***************************************************************************)
\* variant: the except branch starts the fetch again instead of falling back
Except_retry ==
    /\ tempFile' = FALSE
    /\ browser' = "open"
    /\ pcS' = "goto"
    /\ UNCHANGED <<elec_medias, usedFallback>>

\* variant: the except branch leaves temp_elec.xlsx in place
Except_noremove ==
    /\ browser' = "closed"
    /\ elec_medias' = get_fallback_elec
    /\ usedFallback' = TRUE
    /\ pcS' = "returned"
    /\ UNCHANGED tempFile

\* lines 100-105: the except branch of scrape_dgeg_electricidade
Except ==
    /\ tempFile' = FALSE
    /\ browser' = "closed"
    /\ elec_medias' = get_fallback_elec
    /\ usedFallback' = TRUE
    /\ pcS' = "returned"

\* the early returns: (os.remove,) browser.close(), return get_fallback_elec()
ReturnFallback ==
    /\ browser' = "closed"
    /\ elec_medias' = get_fallback_elec
    /\ usedFallback' = TRUE
    /\ pcS' = "returned"

\* variant: the output file is opened for writing before the scrape
MainStart_trunc ==
    /\ pcS \in {"idle", "done", "crashed", "cancelled"}
    /\ runs < MaxRuns
    /\ runs' = runs + 1
    /\ pcS' = "launch"
    /\ browser' = "none"
    /\ table' = NoTable
    /\ elec_medias' = NoMedias
    /\ usedFallback' = FALSE
    /\ dados' = NoDados
    /\ snapshotAntes' = file
    /\ file' = [exists |-> TRUE, text |-> <<>>]
    /\ UNCHANGED <<tempFile, persistidos>>
    /\ UNCHANGED varsE /\ UNCHANGED varsR

\* main() is called: asyncio.run(main())
MainStart ==
    /\ pcS \in {"idle", "done", "crashed", "cancelled"}
    /\ runs < MaxRuns
    /\ runs' = runs + 1
    /\ pcS' = "launch"
    /\ browser' = "none"
    /\ table' = NoTable
    /\ elec_medias' = NoMedias
    /\ usedFallback' = FALSE
    /\ dados' = NoDados
    /\ snapshotAntes' = file
    /\ UNCHANGED <<tempFile, file, persistidos>>
    /\ UNCHANGED varsE /\ UNCHANGED varsR

\* lines 20-22, before the try: a failure here leaves scrape and main
Launch ==
    /\ pcS = "launch"
    /\ \/ /\ browser' = "open"
          /\ pcS' = "goto"
       \/ /\ browser' = "none"
          /\ pcS' = "crashed"
    /\ UNCHANGED <<tempFile, table, elec_medias, usedFallback, dados, file,
                   runs, persistidos>>
    /\ UNCHANGED snapshotAntes
    /\ UNCHANGED varsE /\ UNCHANGED varsR

\* lines 25-26: page.goto, wait
Goto ==
    /\ pcS = "goto"
    /\ \/ /\ pcS' = "links"
          /\ UNCHANGED <<browser, tempFile, elec_medias, usedFallback>>
       \/ Except
    /\ UNCHANGED <<table, dados, file, runs, persistidos>>
    /\ UNCHANGED snapshotAntes
    /\ UNCHANGED varsE /\ UNCHANGED varsR

\* lines 29-41: look for the spreadsheet link
FindLink ==
    /\ pcS = "links"
    /\ \/ /\ pcS' = "download"
          /\ UNCHANGED <<browser, tempFile, elec_medias, usedFallback>>
       \/ /\ ReturnFallback
          /\ UNCHANGED tempFile
       \/ Except
    /\ UNCHANGED <<table, dados, file, runs, persistidos>>
    /\ UNCHANGED snapshotAntes
    /\ UNCHANGED varsE /\ UNCHANGED varsR

\* lines 45-53: requests.get, status check, write temp_elec.xlsx
Download ==
    /\ pcS = "download"
    /\ \/ /\ pcS' = "read_excel"
          /\ tempFile' = TRUE
          /\ UNCHANGED <<browser, elec_medias, usedFallback>>
       \/ /\ ReturnFallback
          /\ UNCHANGED tempFile
       \/ Except
    /\ UNCHANGED <<table, dados, file, runs, persistidos>>
    /\ UNCHANGED snapshotAntes
    /\ UNCHANGED varsE /\ UNCHANGED varsR

\* line 56: pd.read_excel
ReadExcel ==
    /\ pcS = "read_excel"
    /\ \/ /\ \E t \in Tables : table' = t
          /\ pcS' = "detect"
          /\ UNCHANGED <<browser, tempFile, elec_medias, usedFallback>>
       \/ /\ Except
          /\ UNCHANGED table
    /\ UNCHANGED <<dados, file, runs, persistidos>>
    /\ UNCHANGED snapshotAntes
    /\ UNCHANGED varsE /\ UNCHANGED varsR

\* lines 60-74: column-role detection
Detect ==
    /\ pcS = "detect"
    /\ IF ColunasFaltando(table)
       THEN /\ ReturnFallback
            /\ tempFile' = FALSE
       ELSE /\ pcS' = "filter"
            /\ UNCHANGED <<browser, tempFile, elec_medias, usedFallback>>
    /\ UNCHANGED <<table, dados, file, runs, persistidos>>
    /\ UNCHANGED snapshotAntes
    /\ UNCHANGED varsE /\ UNCHANGED varsR

\* lines 79-84: residential filter
Filter ==
    /\ pcS = "filter"
    /\ IF df_res(table) = {}
       THEN /\ ReturnFallback
            /\ tempFile' = FALSE
       ELSE /\ pcS' = "aggregate"
            /\ UNCHANGED <<browser, tempFile, elec_medias, usedFallback>>
    /\ UNCHANGED <<table, dados, file, runs, persistidos>>
    /\ UNCHANGED snapshotAntes
    /\ UNCHANGED varsE /\ UNCHANGED varsR

\* lines 87-98: district, group sum, conversion, return media_kwh
Aggregate ==
    /\ pcS = "aggregate"
    /\ \/ /\ elec_medias' = media_kwh(table)
          /\ tempFile' = FALSE
          /\ browser' = "closed"
          /\ pcS' = "returned"
          /\ UNCHANGED usedFallback
       \/ Except
    /\ UNCHANGED <<table, dados, file, runs, persistidos>>
    /\ UNCHANGED snapshotAntes
    /\ UNCHANGED varsE /\ UNCHANGED varsR

\* asyncio cancellation of main(): CancelledError is raised at the pending
\* await and is not an Exception, so the except branch at line 100 lets it pass
Cancel ==
    /\ \/ \* awaiting launch / new_page / goto / wait / query_selector_all
          /\ pcS \in {"launch", "goto", "links"}
          /\ UNCHANGED tempFile
       \/ \* awaiting browser.close() on a return path (lines 40, 48, 73, 83, 97, 104)
          /\ pcS \in {"goto", "links", "download", "read_excel", "detect", "filter",
                      "aggregate"}
          /\ tempFile' = FALSE
    /\ pcS' = "cancelled"
    /\ browser' = "none"
    /\ UNCHANGED <<table, elec_medias, usedFallback, dados, file, runs, persistidos,
                   snapshotAntes>>
    /\ UNCHANGED varsE /\ UNCHANGED varsR

\* main() lines 125-139
BuildDados ==
    /\ pcS = "returned"
    /\ dados' = MkDados(elec_medias, runs)
    /\ pcS' = "open"
    /\ UNCHANGED <<browser, tempFile, table, elec_medias, usedFallback, file,
                   runs, persistidos>>
    /\ UNCHANGED snapshotAntes
    /\ UNCHANGED varsE /\ UNCHANGED varsR

\* main() line 141: open(OUTPUT_FILE, 'w') creates or truncates the file
OpenWrite ==
    /\ pcS = "open"
    /\ file' = [exists |-> TRUE, text |-> <<>>]
    /\ pcS' = "dump"
    /\ UNCHANGED <<browser, tempFile, table, elec_medias, usedFallback, dados,
                   runs, persistidos>>
    /\ UNCHANGED snapshotAntes
    /\ UNCHANGED varsE /\ UNCHANGED varsR

\* main() line 142: json.dump into the buffer, flushed when the with-block closes
DumpClose ==
    /\ pcS = "dump"
    /\ file' = [exists |-> TRUE, text |-> Serialize(dados)]
    /\ persistidos' = persistidos \cup {<<usedFallback, dados.fonte>>}
    /\ pcS' = "done"
    /\ UNCHANGED <<browser, tempFile, table, elec_medias, usedFallback, dados,
                   runs>>
    /\ UNCHANGED snapshotAntes
    /\ UNCHANGED varsE /\ UNCHANGED varsR

(***************************************************************************)
(* main.py: module-level start-up (lines 15-33)                            *)
(***************************************************************************)
\* json.load: a text that is not one complete document raises JSONDecodeError
ParseOK(text) == Len(text) = 4 /\ {text[i][1] : i \in 1..4} =
                    {"data_raspagem", "consumo_medio_eletricidade", "precos", "fonte"}

Member(text, key) == text[CHOOSE i \in 1..Len(text) : text[i][1] = key][2]

\* lines 25-33: the tables used when the file does not exist
InternalBaseline ==
    [d \in {"Lisboa", "Porto", "Faro", "Coimbra", "Braga"} |->
        CASE d = "Lisboa"  -> [residencial |-> 3850, comercial_pequeno |-> 8470, industrial |-> 42350]
          [] d = "Porto"   -> [residencial |-> 4250, comercial_pequeno |-> 9350, industrial |-> 46750]
          [] d = "Faro"    -> [residencial |-> 4900, comercial_pequeno |-> 10780, industrial |-> 53900]
          [] d = "Coimbra" -> [residencial |-> 3950, comercial_pequeno |-> 8690, industrial |-> 43450]
          [] d = "Braga"   -> [residencial |-> 4550, comercial_pequeno |-> 10010, industrial |-> 50050]]
InternalPrecos == [eletricidade |-> 24, gas |-> 10]

NoLido == [read |-> FALSE, text |-> <<>>]

\* line 16 (and 24-33 when the file is absent)
EngineExists ==
    /\ pcE = "start"
    /\ IF file.exists
       THEN /\ pcE' = "open"
            /\ UNCHANGED <<consumo_medio_eletricidade, precos>>
       ELSE /\ pcE' = "ready"
            /\ consumo_medio_eletricidade' = InternalBaseline
            /\ precos' = InternalPrecos
    /\ UNCHANGED lido
    /\ UNCHANGED varsS /\ UNCHANGED varsR

\* lines 17-21: open, json.load, take the baseline and the prices
EngineLoad ==
    /\ pcE = "open"
    /\ lido' = [read |-> TRUE, text |-> file.text]
    /\ IF ParseOK(file.text)
       THEN /\ consumo_medio_eletricidade' = Member(file.text, "consumo_medio_eletricidade")
            /\ precos' = Member(file.text, "precos")
            /\ pcE' = "ready"
       ELSE /\ pcE' = "crashed"
            /\ UNCHANGED <<consumo_medio_eletricidade, precos>>
    /\ UNCHANGED varsS /\ UNCHANGED varsR

(***************************************************************************)
(* main.py: gerar_proposta (lines 94-132)                                  *)
(***************************************************************************)
TIPOS == {"residencial", "comercial_pequeno", "industrial"}

\* LabelEncoder: classes sorted, coded from 0
le_distrito == [d \in {"Braga", "Coimbra", "Faro", "Lisboa", "Porto"} |->
                  CASE d = "Braga" -> 0 [] d = "Coimbra" -> 1 [] d = "Faro" -> 2
                    [] d = "Lisboa" -> 3 [] d = "Porto" -> 4]
le_tipo == [t \in TIPOS |->
              CASE t = "comercial_pequeno" -> 0 [] t = "industrial" -> 1
                [] t = "residencial" -> 2]

\* Optional[float]: <<>> is None, <<v>> is the value v
Truthy(opt) == opt # <<>> /\ opt[1] # 0

\* line 102: lead.consumo_anual_kwh or consumo_medio_eletricidade[distrito][tipo]
ConsumoKwh(lead, base) ==
    IF Truthy(lead.consumo_anual_kwh) THEN lead.consumo_anual_kwh[1]
    ELSE base[lead.distrito][lead.tipo_cliente]

\* variant: the flag is not consulted
ConsumoGas_noflag(lead) == lead.consumo_gas_m3

\* line 103
ConsumoGas(lead) == IF lead.usa_gas THEN lead.consumo_gas_m3 ELSE 0

\* line 104, in cents
FaturaAtual(lead, base, pr) ==
    ConsumoKwh(lead, base) * pr.eletricidade + ConsumoGas(lead) * pr.gas

\* line 108
Features(lead, base, pr) ==
    <<le_distrito[lead.distrito], le_tipo[lead.tipo_cliente], ConsumoKwh(lead, base),
      lead.usa_gas, ConsumoGas(lead), FaturaAtual(lead, base, pr)>>

\* lines 111-118; the score propensao in hundredths of a point
\* variant: inclusive comparisons
Desconto_ge(score) ==
    IF score >= 7000 THEN 22
    ELSE IF score >= 5000 THEN 18
    ELSE IF score >= 3000 THEN 15
    ELSE 12

\* variant: the two middle rows of the table exchanged
Desconto_swapped(score) ==
    IF score > 7000 THEN 22
    ELSE IF score > 5000 THEN 15
    ELSE IF score > 3000 THEN 18
    ELSE 12

Desconto(score) ==
    IF score > 7000 THEN 22
    ELSE IF score > 5000 THEN 18
    ELSE IF score > 3000 THEN 15
    ELSE 12

Plano(score) ==
    IF score > 7000 THEN "Verde Premium"
    ELSE IF score > 5000 THEN "Flex"
    ELSE IF score > 3000 THEN "Básico"
    ELSE "Start"

\* variant: inclusive comparisons
Prioridade_ge(score) ==
    IF score >= 6000 THEN "ALTA"
    ELSE IF score >= 3000 THEN "MÉDIA"
    ELSE "BAIXA"

\* line 129
Prioridade(score) ==
    IF score > 6000 THEN "ALTA"
    ELSE IF score > 3000 THEN "MÉDIA"
    ELSE "BAIXA"

\* lines 120-130: the dict returned
Proposta(lead, base, pr, score) ==
    LET fatura   == FaturaAtual(lead, base, pr)
        desconto == Desconto(score)
    IN  [lead_score         |-> RoundHalfEven(score, 10),
         fatura_atual_eur   |-> fatura,
         desconto_oferecido |-> desconto,
         economia_anual_eur |-> RoundHalfEven(fatura * desconto, 100),
         plano_recomendado  |-> Plano(score),
         mensagem_venda     |-> <<"Com o plano", Plano(score), "você economiza",
                                  RoundHalfEven(fatura * desconto, 10000), "por ano">>,
         prioridade         |-> Prioridade(score)]

NoBody == <<>>
NoX == <<>>

\* variant: a failed prediction is replaced by a default score of 50
TryBody_default(lead, base, pr, out) ==
    IF lead.distrito \notin DOMAIN base
    THEN [raised |-> TRUE, exc |-> [type |-> "HTTPException", status |-> 400,
                                     detail |-> "Distrito inválido."], body |-> NoBody]
    ELSE IF lead.tipo_cliente \notin TIPOS
    THEN [raised |-> TRUE, exc |-> [type |-> "HTTPException", status |-> 400,
                                     detail |-> "Tipo inválido."], body |-> NoBody]
    ELSE [raised |-> FALSE, exc |-> [type |-> "", status |-> 0, detail |-> ""],
          body |-> Proposta(lead, base, pr, IF out.ok THEN out.score ELSE 5000)]

\* lines 96-130: what the try block does: raise an exception or return a dict
TryBody(lead, base, pr, out) ==
    IF lead.distrito \notin DOMAIN base
    THEN [raised |-> TRUE, exc |-> [type |-> "HTTPException", status |-> 400,
                                     detail |-> "Distrito inválido."], body |-> NoBody]
    ELSE IF lead.tipo_cliente \notin TIPOS
    THEN [raised |-> TRUE, exc |-> [type |-> "HTTPException", status |-> 400,
                                     detail |-> "Tipo inválido."], body |-> NoBody]
    ELSE IF lead.distrito \notin DOMAIN le_distrito
    THEN [raised |-> TRUE, exc |-> [type |-> "ValueError", status |-> 0,
                                     detail |-> "y contains previously unseen labels"],
          body |-> NoBody]
    ELSE IF ~out.ok
    THEN [raised |-> TRUE, exc |-> [type |-> "PredictError", status |-> 0,
                                     detail |-> out.msg], body |-> NoBody]
    ELSE [raised |-> FALSE, exc |-> [type |-> "", status |-> 0, detail |-> ""],
          body |-> Proposta(lead, base, pr, out.score)]

\* str(e): an HTTPException prints as "status: detail", others as their message
StatusText(n) == IF n = 400 THEN "400" ELSE IF n = 500 THEN "500" ELSE "?"
StrOf(exc) == IF exc.type = "HTTPException" THEN <<StatusText(exc.status), exc.detail>>
              ELSE <<exc.detail>>

\* lines 131-132: except Exception as e: raise HTTPException(500, str(e))
Responder(r) ==
    IF r.raised
    THEN [status |-> 500, detail |-> StrOf(r.exc), body |-> NoBody]
    ELSE [status |-> 200, detail |-> <<>>, body |-> r.body]

\* whether the request gets as far as line 108
BuildsX(lead, base) ==
    /\ lead.distrito \in DOMAIN base
    /\ lead.tipo_cliente \in TIPOS
    /\ lead.distrito \in DOMAIN le_distrito

NoPedido == [distrito |-> "", tipo_cliente |-> "", consumo_anual_kwh |-> <<>>,
             usa_gas |-> FALSE, consumo_gas_m3 |-> 0]
NoResp == [status |-> 0, detail |-> <<>>, body |-> NoBody]

\* POST /proposta with body lead; out is what model.predict does on X
gerar_proposta(lead, out) ==
    /\ pcE = "ready"
    /\ pedido' = lead
    /\ X' = IF BuildsX(lead, consumo_medio_eletricidade)
            THEN Features(lead, consumo_medio_eletricidade, precos)
            ELSE NoX
    /\ propensao' = IF BuildsX(lead, consumo_medio_eletricidade) /\ out.ok
                    THEN out.score ELSE 0
    /\ predicao' = IF ~BuildsX(lead, consumo_medio_eletricidade) THEN "none"
                   ELSE IF out.ok THEN "ok" ELSE "raised"
    /\ resp' = Responder(TryBody(lead, consumo_medio_eletricidade, precos, out))
    /\ UNCHANGED varsS /\ UNCHANGED varsE

(***************************************************************************)
(* Requests and predictor outcomes                                         *)
(***************************************************************************)
Leads ==
    [distrito : {"Lisboa", "Atlantis"},
     tipo_cliente : {"residencial", "industrial", "premium"},
     consumo_anual_kwh : {<<>>, <<0>>, <<5000>>},
     usa_gas : BOOLEAN,
     consumo_gas_m3 : {0, 500}]

\* scores a regressor may return, in hundredths of a point, around every threshold
Scores == {-500, 0, 2999, 3000, 3001, 5000, 5001, 6000, 6001, 7000, 7001,
           10000, 15000}

Outcomes == {[ok |-> TRUE, score |-> s, msg |-> ""] : s \in Scores}
            \cup {[ok |-> FALSE, score |-> 0, msg |-> "predict failed"]}

\* requests that read the baseline, used while the pipeline runs
LeadsBase ==
    [distrito : {"Lisboa", "Faro"}, tipo_cliente : {"residencial"},
     consumo_anual_kwh : {<<>>}, usa_gas : {FALSE}, consumo_gas_m3 : {0}]
OutcomesBase == {[ok |-> TRUE, score |-> 7500, msg |-> ""]}

(***************************************************************************)
(* Specifications                                                          *)
(***************************************************************************)
NoFile == [exists |-> FALSE, text |-> <<>>]

Init ==
    /\ pcS = "idle"
    /\ browser = "none"
    /\ tempFile = FALSE
    /\ table = NoTable
    /\ elec_medias = NoMedias
    /\ usedFallback = FALSE
    /\ dados = NoDados
    /\ file = NoFile
    /\ runs = 0
    /\ persistidos = {}
    /\ snapshotAntes = file
    /\ pcE = "start"
    /\ lido = NoLido
    /\ consumo_medio_eletricidade = NoMedias
    /\ precos = [eletricidade |-> 0, gas |-> 0]
    /\ pedido = NoPedido
    /\ X = NoX
    /\ propensao = 0
    /\ predicao = "none"
    /\ resp = NoResp

Pedido == \E lead \in Leads, out \in Outcomes : gerar_proposta(lead, out)
PedidoBase == \E lead \in LeadsBase, out \in OutcomesBase : gerar_proposta(lead, out)

\* the pipeline, the engine start-up and requests against the loaded baseline
Next ==
    \/ MainStart \/ Launch \/ Goto \/ FindLink \/ Download \/ ReadExcel
    \/ Detect \/ Filter \/ Aggregate \/ Cancel
    \/ BuildDados \/ OpenWrite \/ DumpClose
    \/ EngineExists \/ EngineLoad
    \/ PedidoBase

Spec == Init /\ [][Next]_vars

\* snapshots an earlier pipeline run may have left on disk
SnapshotsOnDisk ==
    {[exists |-> TRUE, text |-> Serialize(MkDados(m, 1))] :
        m \in {get_fallback_elec, media_kwh(MkTable(ColsGWh, LinhasZero))}}

\* the engine alone, started on whatever file is on disk, with every request
InitEngine ==
    /\ pcS = "idle"
    /\ browser = "none"
    /\ tempFile = FALSE
    /\ table = NoTable
    /\ elec_medias = NoMedias
    /\ usedFallback = FALSE
    /\ dados = NoDados
    /\ file \in {NoFile} \cup SnapshotsOnDisk
    /\ runs = 0
    /\ persistidos = {}
    /\ snapshotAntes = file
    /\ pcE = "start"
    /\ lido = NoLido
    /\ consumo_medio_eletricidade = NoMedias
    /\ precos = [eletricidade |-> 0, gas |-> 0]
    /\ pedido = NoPedido
    /\ X = NoX
    /\ propensao = 0
    /\ predicao = "none"
    /\ resp = NoResp

NextEngine == EngineExists \/ EngineLoad \/ Pedido

SpecEngine == InitEngine /\ [][NextEngine]_vars

TypeOK ==
    /\ pcS \in {"idle", "launch", "goto", "links", "download", "read_excel", "detect",
                "filter", "aggregate", "returned", "open", "dump", "done", "crashed",
                "cancelled"}
    /\ browser \in {"none", "open", "closed"}
    /\ tempFile \in BOOLEAN
    /\ usedFallback \in BOOLEAN
    /\ runs \in 0..MaxRuns
    /\ pcE \in {"start", "open", "ready", "crashed"}
    /\ resp.status \in {0, 200, 500, 400}

(***************************************************************************)
(* Properties                                                              *)
(***************************************************************************)
Handled == resp.status # 0
Returned200 == resp.status = 200
Persisted == Member(file.text, "consumo_medio_eletricidade")

InvalidLead(lead, base) ==
    lead.distrito \notin DOMAIN base \/ lead.tipo_cliente \notin TIPOS

Reason(lead, base) ==
    IF lead.distrito \notin DOMAIN base THEN "Distrito inválido." ELSE "Tipo inválido."

\* C1: a request with an unknown region or an unknown customer type ends in
\* HTTP 400 carrying its reason, with no bill computed, and never in a 500.
C1_ValidationIs400 ==
    (Handled /\ InvalidLead(pedido, consumo_medio_eletricidade)) =>
        /\ resp.status = 400
        /\ resp.detail = <<Reason(pedido, consumo_medio_eletricidade)>>
        /\ Len(X) = 0

\* C2: the score emitted as lead_score lies in [0, 100] whatever the predictor
\* returned (lead_score is in tenths of a point).
C2_ScoreClamped ==
    Returned200 => resp.body.lead_score \in 0..1000

\* C3: no failure of a pipeline stage reaches the caller of main().
C3_NoFailureReachesCaller ==
    pcS # "crashed"

\* C4: whatever the engine reads from dados_reais_energia.json while a run
\* writes it is one complete snapshot, never an empty or partial text.
C4_ReaderSeesWholeSnapshot ==
    lido.read => ParseOK(lido.text)

\* C5: a run in which the fallback fired and a run in which extraction
\* succeeded persist different provenance tags.
C5_ProvenanceReflectsFallback ==
    \A a \in persistidos, b \in persistidos : a[1] # b[1] => a[2] # b[2]

\* C6: when a valid request supplies a known annual consumption, the kWh in the
\* feature vector and in the bill is exactly the supplied value.
C6_KnownConsumptionUsed ==
    (Returned200 /\ pedido.consumo_anual_kwh # <<>>) =>
        /\ X[3] = pedido.consumo_anual_kwh[1]
        /\ resp.body.fatura_atual_eur =
              pedido.consumo_anual_kwh[1] * precos.eletricidade + X[5] * precos.gas

NormalizationFails(df) ==
    /\ Len(df.columns) > 0
    /\ ColunasFaltando(df) \/ df_res(df) = {}

\* C7 as stated: when a column role is missing or the residential filter leaves
\* no row, the persisted baseline has the regions and residential values of the
\* fallback table.
C7_FallbackExactly ==
    (pcS = "done" /\ NormalizationFails(table)) =>
        /\ DOMAIN Persisted = DOMAIN get_fallback_elec
        /\ \A d \in DOMAIN Persisted : Persisted[d].residencial = get_fallback_elec[d]

\* C7 amended: in that case the persisted baseline has exactly the five
\* districts main() keeps, each with the residential value of the fallback table.
C7_FallbackOnFiveDistricts ==
    (pcS = "done" /\ NormalizationFails(table)) =>
        /\ DOMAIN Persisted = Range(distritos)
        /\ \A d \in DOMAIN Persisted : Persisted[d].residencial = get_fallback_elec[d]

C7_Witness ==
    /\ pcS = "done"
    /\ Len(table.columns) > 0
    /\ ~ColunasFaltando(table)
    /\ df_res(table) = {}
    /\ Persisted["Lisboa"].residencial = 3850

\* C8: discount and plan follow the ordered table with strict comparisons:
\* > 70 gives 22, else > 50 gives 18, else > 30 gives 15, else 12; a score of
\* exactly 70 gives 18, exactly 50 gives 15, exactly 30 gives 12.
C8_TierTable ==
    Returned200 =>
        LET d == resp.body.desconto_oferecido
            p == resp.body.plano_recomendado
        IN  /\ propensao > 7000 => (d = 22 /\ p = "Verde Premium")
            /\ (propensao <= 7000 /\ propensao > 5000) => (d = 18 /\ p = "Flex")
            /\ (propensao <= 5000 /\ propensao > 3000) => (d = 15 /\ p = "Básico")
            /\ propensao <= 3000 => (d = 12 /\ p = "Start")

C8_Witness ==
    /\ Returned200
    /\ propensao = 7000
    /\ resp.body.desconto_oferecido = 18

GasValues == {0, 500, 1200}

\* C9: with the gas flag false the effective gas usage is 0, and the feature
\* vector, the bill and the whole response are those of the same request with
\* any other supplied gas consumption.
C9_GasIgnoredWhenFlagFalse ==
    (Returned200 /\ ~pedido.usa_gas) =>
        /\ X[5] = 0
        /\ \A g \in GasValues :
              LET outro == [pedido EXCEPT !.consumo_gas_m3 = g]
              IN  /\ Features(outro, consumo_medio_eletricidade, precos) = X
                  /\ Responder(TryBody(outro, consumo_medio_eletricidade, precos,
                                       [ok |-> TRUE, score |-> propensao, msg |-> ""]))
                        = resp

C9_Witness ==
    /\ Returned200
    /\ ~pedido.usa_gas
    /\ pedido.consumo_gas_m3 = 500
    /\ resp.body.fatura_atual_eur = 5000 * 24

\* C10: every persisted baseline has non-negative values, with the commercial
\* and industrial values strictly above the residential one.
C10_BaselineInvariant ==
    ParseOK(file.text) =>
        \A d \in DOMAIN Persisted :
            /\ Persisted[d].residencial >= 0
            /\ Persisted[d].comercial_pequeno >= 0
            /\ Persisted[d].industrial >= 0
            /\ Persisted[d].comercial_pequeno > Persisted[d].residencial
            /\ Persisted[d].industrial > Persisted[d].residencial

\* C11: once a run has persisted a new snapshot, every request the running
\* engine handles afterwards is computed from that snapshot's baseline.
C11_RequestsUseNewSnapshot ==
    [][(pcS = "done" /\ pcE = "ready" /\ pedido' # pedido /\ Len(X') > 0) =>
          X'[3] = Persisted[pedido'.distrito][pedido'.tipo_cliente]]_vars

\* C12: a run that is cancelled or ends in an unrecovered failure leaves the
\* snapshot file as it was when the run started; the file differs from that
\* only once the run has gone through every stage and written it.
C12_AbortLeavesSnapshot ==
    /\ pcS \in {"crashed", "cancelled"} => file = snapshotAntes
    /\ file # snapshotAntes => pcS \in {"dump", "done"}

C12_Witness ==
    /\ pcS = "cancelled"
    /\ Len(table.columns) > 0
    /\ snapshotAntes.exists
    /\ file = snapshotAntes

\* C13: when the predictor call fails for a request that passed validation,
\* the request ends in a server error and no Proposal is emitted; no default
\* score takes the place of the failure.
C13_PredictorFailureIsServerError ==
    predicao = "raised" =>
        /\ resp.status = 500
        /\ resp.body = NoBody
        /\ propensao = 0

C13_Witness ==
    /\ predicao = "raised"
    /\ pedido.distrito = "Lisboa"
    /\ Len(X) > 0
    /\ resp.status = 500

\* C14: the error for a predictor failure carries none of the text of the
\* underlying exception, and the error for a validation failure carries its
\* reason string.
C14_PredictorErrorIsGeneric ==
    /\ predicao = "raised" => "predict failed" \notin Range(resp.detail)
    /\ (Handled /\ InvalidLead(pedido, consumo_medio_eletricidade)) =>
          Reason(pedido, consumo_medio_eletricidade) \in Range(resp.detail)

\* C15: for the same profile, baseline and prices, a higher predictor score
\* never gives a lower discount.
C15_TierMonotone ==
    Returned200 =>
        \A s \in Scores :
            LET outro == Responder(TryBody(pedido, consumo_medio_eletricidade, precos,
                                           [ok |-> TRUE, score |-> s, msg |-> ""]))
            IN  /\ s > propensao =>
                     outro.body.desconto_oferecido >= resp.body.desconto_oferecido
                /\ s < propensao =>
                     outro.body.desconto_oferecido <= resp.body.desconto_oferecido

C15_Witness ==
    /\ Returned200
    /\ propensao = 5001
    /\ resp.body.desconto_oferecido = 18

\* C16: priority is ALTA above 60, MÉDIA above 30 up to 60, BAIXA up to 30;
\* so it is BAIXA exactly when the discount is 12, and ALTA whenever the
\* discount is 22.
C16_Priority ==
    Returned200 =>
        LET pr == resp.body.prioridade
            d  == resp.body.desconto_oferecido
        IN  /\ propensao > 6000 => pr = "ALTA"
            /\ (propensao > 3000 /\ propensao <= 6000) => pr = "MÉDIA"
            /\ propensao <= 3000 => pr = "BAIXA"
            /\ (pr = "BAIXA") <=> (d = 12)
            /\ d = 22 => pr = "ALTA"

C16_Witness ==
    /\ Returned200
    /\ propensao = 6000
    /\ resp.body.prioridade = "MÉDIA"
    /\ resp.body.desconto_oferecido = 18

\* the unit named in the header of the consumption column
DetectedUnit(df) ==
    LET c == df.columns[consumo_col(df)]
    IN  IF "gwh" \in c THEN "gwh" ELSE IF "mwh" \in c THEN "mwh" ELSE "kwh"

\* total in the given unit, in kWh, per consumer (3,500,000 consumers), rounded
PerConsumer(total, unit) ==
    IF unit = "gwh" THEN RoundHalfEven(total * 10, 35)
    ELSE IF unit = "mwh" THEN RoundHalfEven(total, 3500)
    ELSE RoundHalfEven(total, 3500000)

\* C17: after a successful extraction, each region's figure is its residential
\* total converted from the detected unit to kWh and divided by 3,500,000.
C17_UnitConversion ==
    (pcS = "done" /\ ~usedFallback) =>
        \A d \in DOMAIN elec_medias :
            elec_medias[d] = PerConsumer(total_gwh(table)[d], DetectedUnit(table))

Rank(pc) ==
    CASE pc = "idle" -> 0
      [] pc = "launch" -> 1
      [] pc = "goto" -> 2
      [] pc = "links" -> 3
      [] pc = "download" -> 4
      [] pc = "read_excel" -> 5
      [] pc = "detect" -> 6
      [] pc = "filter" -> 7
      [] pc = "aggregate" -> 8
      [] pc = "returned" -> 9
      [] pc = "open" -> 10
      [] pc = "dump" -> 11
      [] OTHER -> 12

\* C18: within a run the position only moves forward, so no stage is entered
\* twice; the fallback table is taken at most once, leads straight to the end
\* of the extraction, and no extraction stage follows it.
C18_SingleForwardPass ==
    [][/\ pcS' # pcS =>
             \/ pcS' = "launch" /\ pcS \in {"idle", "done", "crashed", "cancelled"}
             \/ Rank(pcS') > Rank(pcS) /\ Rank(pcS) < 12
       /\ (usedFallback' /\ ~usedFallback) => pcS' = "returned"
       /\ (usedFallback /\ pcS' # "launch") =>
             /\ usedFallback'
             /\ elec_medias' = elec_medias
             /\ pcS' \in {"returned", "open", "dump", "done"}]_vars

C18_Witness ==
    /\ pcS = "done"
    /\ usedFallback
    /\ Len(table.columns) > 0
    /\ runs = 2

\* C19: every persisted snapshot has exactly the five districts, each with the
\* three customer types; a district the extraction did not return gets 4000;
\* and every district of the engine's baseline has every valid customer type.
C19_FiveDistricts ==
    /\ ParseOK(file.text) =>
          /\ DOMAIN Persisted = {"Lisboa", "Porto", "Faro", "Coimbra", "Braga"}
          /\ \A d \in DOMAIN Persisted : DOMAIN Persisted[d] = TIPOS
    /\ pcS = "done" =>
          \A d \in {"Lisboa", "Porto", "Faro", "Coimbra", "Braga"} :
              d \notin DOMAIN elec_medias => Persisted[d].residencial = 4000
    /\ pcE = "ready" =>
          \A d \in DOMAIN consumo_medio_eletricidade :
              TIPOS \subseteq DOMAIN consumo_medio_eletricidade[d]

C19_Witness ==
    /\ pcS = "done"
    /\ "Setúbal" \in DOMAIN elec_medias
    /\ "Lisboa" \notin DOMAIN elec_medias
    /\ Persisted["Lisboa"].residencial = 4000
    /\ "Setúbal" \notin DOMAIN Persisted

\* C20: whenever scrape_dgeg_electricidade has returned a result,
\* temp_elec.xlsx does not exist and the browser is closed.
C20_TempRemovedBrowserClosed ==
    pcS \in {"returned", "open", "dump", "done"} =>
        /\ ~tempFile
        /\ browser = "closed"

C20_Witness ==
    /\ pcS = "returned"
    /\ Len(table.columns) > 0
    /\ ~tempFile
    /\ browser = "closed"

====
